---- MODULE Spec2Model ----
(***************************************************************************)
(* Retry/backoff executor and SSE stream decoder of OpenAIApiService       *)
(* (src/src/openai/openai-core.js) and OpenAIResponsesApiService           *)
(* (src/src/openai/openai-responses-core.js).                              *)
(*                                                                         *)
(* Text is a sequence of code points, a chunk is a sequence of bytes.      *)
(* JavaScript's `undefined` and NaN are the numbers Undefined and NaN      *)
(* below (TLC cannot compare a number with a string); every comparison     *)
(* that the code makes with them is written out with JavaScript's result.  *)
(***************************************************************************)
EXTENDS Integers, Sequences, FiniteSets, TLC

\* ------------------------------------------------------------------------
\* JavaScript values that are not numbers
\* ------------------------------------------------------------------------

\* `undefined`: a configuration key that is not set, error.response?.status
\* of an error that carries no response.
Undefined == -1

\* NaN: undefined * Math.pow(2, retryCount).
NaN == -2

IsNumber(x) == x # Undefined /\ x # NaN

\* ------------------------------------------------------------------------
\* Text
\* ------------------------------------------------------------------------

\* '\n', the line separator of buffer.indexOf('\n').
LF == 10

\* U+FFFD, what StringDecoder gives for bytes that are no UTF-8 character.
REPLACEMENT == 65533

\* 'data: '
DataPrefix == <<100, 97, 116, 97, 58, 32>>

\* '[DONE]'
DoneSentinel == <<91, 68, 79, 78, 69, 93>>

\* The characters String.prototype.trim() removes: white space and line
\* terminators.
IsWhiteSpace(c) ==
    \/ c \in {9, 10, 11, 12, 13, 32, 160, 5760, 8232, 8233, 8239, 8287, 12288, 65279}
    \/ c \in 8192..8202

\* String.prototype.trim()
trim(s) ==
    LET kept == {k \in 1..Len(s) : ~IsWhiteSpace(s[k])}
    IN IF kept = {} THEN <<>>
       ELSE SubSeq(s, CHOOSE k \in kept : \A j \in kept : k <= j,
                      CHOOSE k \in kept : \A j \in kept : k >= j)

\* String.prototype.startsWith(prefix)
startsWith(s, prefix) ==
    /\ Len(s) >= Len(prefix)
    /\ SubSeq(s, 1, Len(prefix)) = prefix

\* String.prototype.indexOf(c): the 0-based index of the first c, -1 if none.
indexOf(s, c) ==
    LET found == {k \in 1..Len(s) : s[k] = c}
    IN IF found = {} THEN -1
       ELSE (CHOOSE k \in found : \A j \in found : k <= j) - 1

\* String.prototype.substring(start, end), 0-based, end exclusive.
substring(s, start, end) == SubSeq(s, start + 1, end)

\* String.prototype.substring(start)
substringFrom(s, start) == SubSeq(s, start + 1, Len(s))

\* ------------------------------------------------------------------------
\* StringDecoder('utf8')
\* ------------------------------------------------------------------------

IsContinuation(b) == b >= 128 /\ b <= 191

\* How many continuation bytes follow lead byte b; 0 for ASCII, -1 for a byte
\* that starts no character.
utf8Need(b) ==
    IF b < 128 THEN 0
    ELSE IF b >= 194 /\ b <= 223 THEN 1
    ELSE IF b >= 224 /\ b <= 239 THEN 2
    ELSE IF b >= 240 /\ b <= 244 THEN 3
    ELSE -1

\* The number of continuation bytes among the first n bytes after the lead.
RECURSIVE continuationRun(_, _, _)
continuationRun(bytes, i, n) ==
    IF n = 0 \/ i > Len(bytes) THEN 0
    ELSE IF IsContinuation(bytes[i]) THEN 1 + continuationRun(bytes, i + 1, n - 1)
    ELSE 0

RECURSIVE utf8CodePoint(_, _, _)
utf8CodePoint(bytes, i, acc) ==
    IF i > Len(bytes) THEN acc
    ELSE utf8CodePoint(bytes, i + 1, acc * 64 + (bytes[i] - 128))

utf8LeadBits(b) ==
    IF b < 224 THEN b - 192
    ELSE IF b < 240 THEN b - 224
    ELSE b - 240

\* Decodes every complete character of bytes from position i on, after the
\* text acc; the bytes of a trailing incomplete character are held back:
\* [text, rest].
RECURSIVE utf8DecodeFrom(_, _, _)
utf8DecodeFrom(bytes, i, acc) ==
    IF i > Len(bytes) THEN [text |-> acc, rest |-> <<>>]
    ELSE IF utf8Need(bytes[i]) = 0 THEN utf8DecodeFrom(bytes, i + 1, Append(acc, bytes[i]))
    ELSE IF utf8Need(bytes[i]) = -1 THEN utf8DecodeFrom(bytes, i + 1, Append(acc, REPLACEMENT))
    ELSE IF continuationRun(bytes, i + 1, utf8Need(bytes[i])) = utf8Need(bytes[i])
    THEN utf8DecodeFrom(bytes, i + 1 + utf8Need(bytes[i]),
                        Append(acc, utf8CodePoint(SubSeq(bytes, i + 1, i + utf8Need(bytes[i])),
                                                  1, utf8LeadBits(bytes[i]))))
    ELSE IF continuationRun(bytes, i + 1, utf8Need(bytes[i])) = Len(bytes) - i
    THEN [text |-> acc, rest |-> SubSeq(bytes, i, Len(bytes))]
    ELSE utf8DecodeFrom(bytes, i + 1 + continuationRun(bytes, i + 1, utf8Need(bytes[i])),
                        Append(acc, REPLACEMENT))

utf8Decode(bytes) == utf8DecodeFrom(bytes, 1, <<>>)

\* chunk.toString(): every chunk decoded on its own (the line the code has
\* commented out); an incomplete character becomes U+FFFD at once.
chunkToString(pending, chunk) ==
    LET r == utf8Decode(chunk)
    IN [text |-> r.text \o (IF r.rest = <<>> THEN <<>> ELSE <<REPLACEMENT>>),
        rest |-> <<>>]

\* decoder.write(chunk): pending holds the bytes of the incomplete character
\* the decoder kept from earlier chunks.
decoderWrite(pending, chunk) == utf8Decode(pending \o chunk)

\* decoder.end(): the held bytes, never completed, give one U+FFFD.
decoderEnd(pending) == IF pending = <<>> THEN <<>> ELSE <<REPLACEMENT>>

\* ------------------------------------------------------------------------
\* JSON.parse
\*
\* Numbers are non-negative integers, strings have no escapes: the payloads
\* the transport of this model sends use nothing else.  A parsed value is
\* [t, v]: t the type, v the number, the string's text, the array's elements
\* or the object's <<key, value>> pairs in insertion order.
\* ------------------------------------------------------------------------

ParseFail == [ok |-> FALSE, v |-> 0, i |-> 0]

IsJsonWhiteSpace(c) == c \in {9, 10, 13, 32}

IsDigit(c) == c >= 48 /\ c <= 57

RECURSIVE skipWs(_, _)
skipWs(s, i) ==
    IF i <= Len(s) /\ IsJsonWhiteSpace(s[i]) THEN skipWs(s, i + 1) ELSE i

\* The digits of a number starting at i: [v, i].
RECURSIVE parseDigits(_, _, _)
parseDigits(s, i, acc) ==
    IF i <= Len(s) /\ IsDigit(s[i])
    THEN parseDigits(s, i + 1, acc * 10 + (s[i] - 48))
    ELSE [ok |-> TRUE, v |-> [t |-> "num", v |-> acc], i |-> i]

parseNumber(s, i) ==
    IF s[i] = 48
    THEN [ok |-> TRUE, v |-> [t |-> "num", v |-> 0], i |-> i + 1]
    ELSE parseDigits(s, i, 0)

\* The characters of a string after its opening quote, up to the closing one.
RECURSIVE parseChars(_, _, _)
parseChars(s, i, acc) ==
    IF i > Len(s) THEN ParseFail
    ELSE IF s[i] = 34 THEN [ok |-> TRUE, v |-> [t |-> "str", v |-> acc], i |-> i + 1]
    ELSE IF s[i] < 32 \/ s[i] = 92 THEN ParseFail
    ELSE parseChars(s, i + 1, Append(acc, s[i]))

parseLiteral(s, i, word, value) ==
    IF startsWith(SubSeq(s, i, Len(s)), word)
    THEN [ok |-> TRUE, v |-> [t |-> "lit", v |-> value], i |-> i + Len(word)]
    ELSE ParseFail

\* obj[key] = value on an object's pairs: a key set again keeps its place.
RECURSIVE putMember(_, _, _)
putMember(pairs, key, value) ==
    IF pairs = <<>> THEN << <<key, value>> >>
    ELSE IF Head(pairs)[1] = key THEN << <<key, value>> >> \o Tail(pairs)
    ELSE <<Head(pairs)>> \o putMember(Tail(pairs), key, value)

RECURSIVE parseValue(_, _)
RECURSIVE parseElements(_, _, _)
RECURSIVE parseMembers(_, _, _)

\* The elements of an array, i at the start of the next element.
parseElements(s, i, acc) ==
    LET e == parseValue(s, i)
    IN IF ~e.ok THEN ParseFail
       ELSE LET j == skipWs(s, e.i)
            IN IF j > Len(s) THEN ParseFail
               ELSE IF s[j] = 44 THEN parseElements(s, j + 1, Append(acc, e.v))
               ELSE IF s[j] = 93
               THEN [ok |-> TRUE, v |-> [t |-> "arr", v |-> Append(acc, e.v)], i |-> j + 1]
               ELSE ParseFail

\* The members of an object, i at the start of the next key.
parseMembers(s, i, acc) ==
    LET k == skipWs(s, i)
    IN IF k > Len(s) \/ s[k] # 34 THEN ParseFail
       ELSE LET key == parseChars(s, k + 1, <<>>)
            IN IF ~key.ok THEN ParseFail
               ELSE LET c == skipWs(s, key.i)
                    IN IF c > Len(s) \/ s[c] # 58 THEN ParseFail
                       ELSE LET e == parseValue(s, c + 1)
                            IN IF ~e.ok THEN ParseFail
                               ELSE LET j == skipWs(s, e.i)
                                        members == putMember(acc, key.v.v, e.v)
                                    IN IF j > Len(s) THEN ParseFail
                                       ELSE IF s[j] = 44 THEN parseMembers(s, j + 1, members)
                                       ELSE IF s[j] = 125
                                       THEN [ok |-> TRUE, v |-> [t |-> "obj", v |-> members], i |-> j + 1]
                                       ELSE ParseFail

parseValue(s, i0) ==
    LET i == skipWs(s, i0)
    IN IF i > Len(s) THEN ParseFail
       ELSE IF s[i] = 34 THEN parseChars(s, i + 1, <<>>)
       ELSE IF IsDigit(s[i]) THEN parseNumber(s, i)
       ELSE IF s[i] = 91
       THEN LET j == skipWs(s, i + 1)
            IN IF j <= Len(s) /\ s[j] = 93
               THEN [ok |-> TRUE, v |-> [t |-> "arr", v |-> <<>>], i |-> j + 1]
               ELSE parseElements(s, i + 1, <<>>)
       ELSE IF s[i] = 123
       THEN LET j == skipWs(s, i + 1)
            IN IF j <= Len(s) /\ s[j] = 125
               THEN [ok |-> TRUE, v |-> [t |-> "obj", v |-> <<>>], i |-> j + 1]
               ELSE parseMembers(s, i + 1, <<>>)
       ELSE IF s[i] = 116 THEN parseLiteral(s, i, <<116, 114, 117, 101>>, "true")
       ELSE IF s[i] = 102 THEN parseLiteral(s, i, <<102, 97, 108, 115, 101>>, "false")
       ELSE IF s[i] = 110 THEN parseLiteral(s, i, <<110, 117, 108, 108>>, "null")
       ELSE ParseFail

\* JSON.parse(text): [ok, v]; ok = FALSE where JSON.parse throws SyntaxError.
JSONparse(text) ==
    LET r == parseValue(text, 1)
    IN IF r.ok /\ skipWs(text, r.i) > Len(text)
       THEN [ok |-> TRUE, v |-> r.v]
       ELSE [ok |-> FALSE, v |-> 0]

\* ------------------------------------------------------------------------
\* The line logic of streamApi
\* ------------------------------------------------------------------------

doneAsSkip(jsonData) == FALSE

\* jsonData === '[DONE]'
isDone(jsonData) == jsonData = DoneSentinel

parseFailureReturns(line) == 
    IF startsWith(line, DataPrefix)
    THEN LET jsonData == trim(substringFrom(line, 6))
         IN IF isDone(jsonData) THEN [kind |-> "return", v |-> 0]
            ELSE LET parsedChunk == JSONparse(jsonData)
                 IN IF parsedChunk.ok
                    THEN [kind |-> "yield", v |-> parsedChunk.v]
                    ELSE [kind |-> "return", v |-> 0]
    ELSE [kind |-> "skip", v |-> 0]

anyFieldAsData(line) ==
    IF line = <<>> THEN [kind |-> "skip", v |-> 0]
    ELSE LET jsonData == trim(substringFrom(line, 6))
             parsedChunk == JSONparse(jsonData)
         IN IF isDone(jsonData) THEN [kind |-> "return", v |-> 0]
            ELSE IF parsedChunk.ok THEN [kind |-> "yield", v |-> parsedChunk.v]
            ELSE [kind |-> "warn", v |-> 0]

\* What the body of the while loop does with one trimmed line: "return" on
\* [DONE], "yield" a parsed payload, "warn" on a payload JSON.parse rejects
\* (the catch around JSON.parse), "skip" any line without the prefix.
processLine(line) ==
    IF startsWith(line, DataPrefix)
    THEN LET jsonData == trim(substringFrom(line, 6))
         IN IF isDone(jsonData) THEN [kind |-> "return", v |-> 0]
            ELSE LET parsedChunk == JSONparse(jsonData)
                 IN IF parsedChunk.ok
                    THEN [kind |-> "yield", v |-> parsedChunk.v]
                    ELSE [kind |-> "warn", v |-> 0]
    ELSE [kind |-> "skip", v |-> 0]

ifInsteadOfWhile(buffer, warned) ==
    LET newlineIndex == indexOf(buffer, LF)
    IN IF newlineIndex = -1
       THEN [kind |-> "more", v |-> 0, buffer |-> buffer, warned |-> warned]
       ELSE LET line == trim(substring(buffer, 0, newlineIndex))
                rest == substringFrom(buffer, newlineIndex + 1)
                step == processLine(line)
            IN IF step.kind \in {"yield", "return"}
               THEN [kind |-> step.kind, v |-> step.v, buffer |-> rest, warned |-> warned]
               ELSE [kind |-> "more", v |-> 0, buffer |-> rest,
                     warned |-> IF step.kind = "warn" THEN warned + 1 ELSE warned]

\* while ((newlineIndex = buffer.indexOf('\n')) !== -1) { ... } run to its
\* next suspension: "yield" (parked at the yield, buffer already cut),
\* "return" ([DONE]) or "more" (no newline left: back to the for await).
\* warned counts the console.warn calls made on the way.
RECURSIVE whileLoop(_, _)
whileLoop(buffer, warned) ==
    LET newlineIndex == indexOf(buffer, LF)
    IN IF newlineIndex = -1
       THEN [kind |-> "more", v |-> 0, buffer |-> buffer, warned |-> warned]
       ELSE LET line == trim(substring(buffer, 0, newlineIndex))
                rest == substringFrom(buffer, newlineIndex + 1)
                step == processLine(line)
            IN IF step.kind \in {"yield", "return"}
               THEN [kind |-> step.kind, v |-> step.v, buffer |-> rest, warned |-> warned]
               ELSE whileLoop(rest, IF step.kind = "warn" THEN warned + 1 ELSE warned)

finalFlushSkipped(buffer) == [kind |-> "skip", v |-> 0]

\* if (buffer.length > 0) { const line = buffer.trim(); ... } after the loop:
\* the same line logic, but [DONE] has nothing left to end.
finalFlush(buffer) ==
    IF Len(buffer) > 0
    THEN LET step == processLine(trim(buffer))
         IN IF step.kind = "return" THEN [kind |-> "skip", v |-> 0] ELSE step
    ELSE [kind |-> "skip", v |-> 0]

\* ------------------------------------------------------------------------
\* The retry policy of callApi and streamApi
\* ------------------------------------------------------------------------

Variants == {"OpenAIApiService", "OpenAIResponsesApiService"}

\* x || d
orDefault(x, d) == IF x = Undefined \/ x = NaN \/ x = 0 THEN d ELSE x

\* const maxRetries = this.config.REQUEST_MAX_RETRIES [|| 3];
maxRetries(v, cfg) ==
    IF v = "OpenAIResponsesApiService"
    THEN orDefault(cfg.REQUEST_MAX_RETRIES, 3)
    ELSE cfg.REQUEST_MAX_RETRIES

\* const baseDelay = this.config.REQUEST_BASE_DELAY [|| 1000];
baseDelay(v, cfg) ==
    IF v = "OpenAIResponsesApiService"
    THEN orDefault(cfg.REQUEST_BASE_DELAY, 1000)
    ELSE cfg.REQUEST_BASE_DELAY

\* a < b in JavaScript: false when either side is undefined or NaN.
lessThan(a, b) == IsNumber(a) /\ IsNumber(b) /\ a < b

\* status === 401 || status === 403
isAuthError(status) == status = 401 \/ status = 403

\* status === 429
isTooManyRequests(status) == status = 429

anyStatusFrom500(status) == IsNumber(status) /\ status >= 500

\* status >= 500 && status < 600
isServerError(status) == IsNumber(status) /\ status >= 500 /\ status < 600

retryUpToMax(count, max) == IsNumber(max) /\ count <= max

\* retryCount < maxRetries
hasBudget(count, max) == lessThan(count, max)

delayLinear(base, count) == IF IsNumber(base) THEN base * (count + 1) ELSE NaN

\* const delay = baseDelay * Math.pow(2, retryCount);
delay(base, count) == IF IsNumber(base) THEN base * 2^count ELSE NaN

catchBlockRetriesAny(status, count, max) ==
    IF hasBudget(count, max) THEN "retry" ELSE "throw"

\* The catch block: "throw" the error or "retry" after the backoff delay.
catchBlock(status, count, max) ==
    IF isAuthError(status) THEN "throw"
    ELSE IF isTooManyRequests(status) /\ hasBudget(count, max) THEN "retry"
    ELSE IF isServerError(status) /\ hasBudget(count, max) THEN "retry"
    ELSE "throw"

catchOnlyBeforeStream(status, count, max) == "throw"

bodyAsGiven(body) == body

decodeStateKept(oldBuffer, oldDecoder) == [buffer |-> oldBuffer, decoder |-> oldDecoder]

\* let buffer = ''; const decoder = new StringDecoder('utf8'); in the body
\* of every streamApi call, whatever an earlier call left.
decodeStateNew(oldBuffer, oldDecoder) == [buffer |-> <<>>, decoder |-> <<>>]

listModelsCatchRetries(status, count, max) == catchBlock(status, count, max)

\* The catch block of listModels: console.error and throw error, whatever
\* the status.
listModelsCatch(status, count, max) == "throw"

\* { ...body, stream: true }: a new object, the fields of body with stream
\* set or added.
streamRequestBody(body) ==
    [k \in DOMAIN body \cup {"stream"} |-> IF k = "stream" THEN TRUE ELSE body[k]]

\* The body of the request an operation sends for a payload.
requestBody(o, body) == IF o = "streamApi" THEN streamRequestBody(body) ELSE body

\* The try block of streamApi holds the for await and the final flush as
\* well as the request: an error thrown by response.data while it is read
\* reaches the same catch block.
catchInStream(status, count, max) == catchBlock(status, count, max)

\* ------------------------------------------------------------------------
\* Bounds of the model
\* ------------------------------------------------------------------------

\* REQUEST_MAX_RETRIES is unset or configured as 0..MaxConfiguredRetries.
MaxConfiguredRetries == 2

\* The transport fails retryably up to MaxFailures times before its last
\* outcome, which then repeats for every later attempt.
MaxFailures == 3

\* A streamed response holds up to MaxLines complete lines and a remainder.
MaxLines == 2

\* The chunk source delivers up to MaxChunk bytes in one chunk, or all the
\* bytes it has left.
MaxChunk == 3

\* ------------------------------------------------------------------------
\* The transport: what axiosInstance.post / get answer
\* ------------------------------------------------------------------------

\* The invocations on one service instance.
Inv == {"A", "B"}

\* 'data: 1\n'
LineEvent == DataPrefix \o <<49, LF>>

\* 'data: {"a":1}\n\n'
LineObject == DataPrefix \o <<123, 34, 97, 34, 58, 49, 125, LF, LF>>

\* ' data:  "e-acute"\r\n', the e-acute in two bytes
LineUtf8 == <<32>> \o DataPrefix \o <<32, 34, 195, 169, 34, 13, LF>>

\* 'data: {\n'
LineMalformed == DataPrefix \o <<123, LF>>

\* 'data: [DONE]\n'
LineDone == DataPrefix \o DoneSentinel \o <<LF>>

\* 'data:2\n'
LineNoSpace == <<100, 97, 116, 97, 58, 50, LF>>

\* Lines without the prefix 'data: ': '\r\n', ': c\n', 'id: 1\n',
\* 'event: data: 1\n', 'retry: 5\n', and 'data:2\n' above.
LineBlank == <<13, LF>>

LineComment == <<58, 32, 99, LF>>

LineId == <<105, 100, 58, 32, 49, LF>>

LineEventField == <<101, 118, 101, 110, 116, 58, 32>> \o DataPrefix \o <<49, LF>>

LineRetry == <<114, 101, 116, 114, 121, 58, 32, 53, LF>>

OtherLines == {LineBlank, LineComment, LineId, LineEventField, LineRetry, LineNoSpace}

Lines == {LineEvent, LineUtf8, LineMalformed, LineDone, LineNoSpace}

\* What follows the last newline: nothing, 'data: 3', 'data: [DONE]', or
\* 'data: 1' and the first byte of a two-byte character.
Remainders == {<<>>, DataPrefix \o <<51>>, DataPrefix \o DoneSentinel, DataPrefix \o <<49, 195>>}

RECURSIVE LinesUpTo(_)
LinesUpTo(n) ==
    IF n = 0 THEN {<<>>}
    ELSE LET shorter == LinesUpTo(n - 1)
         IN shorter \cup {b \o l : b \in shorter, l \in Lines}

Bodies == {b \o r : b \in LinesUpTo(MaxLines), r \in Remainders}

\* One attempt's answer.  status 200: the request resolves; for streamApi
\* response.data then delivers body, cut into chunks as `chunks` says, and
\* ends, or throws an error of status brokenStatus if broken.  Any other
\* status: the request rejects with an error of that status (Undefined: an
\* error without a response).
Rejects(status) ==
    [status |-> status, body |-> <<>>, chunks |-> "one", broken |-> FALSE, brokenStatus |-> Undefined]

Streams(body, chunks) ==
    [status |-> 200, body |-> body, chunks |-> chunks, broken |-> FALSE, brokenStatus |-> Undefined]

Breaks(body, chunks, status) ==
    [status |-> 200, body |-> body, chunks |-> chunks, broken |-> TRUE, brokenStatus |-> status]

\* The chunks ["data: {\"a\":", "1}\n\n", "data: [DONE]\n"]
ExampleBody == LineObject \o LineDone

ExampleEnds == {Len(DataPrefix) + 5, Len(LineObject), Len(ExampleBody)}

\* The offsets of the body at which a chunk may end: "one" chunk holds the
\* whole body, "any" cuts anywhere, "example" cuts as ExampleEnds.
ChunkEnds(o) ==
    IF o.chunks = "one" THEN {Len(o.body)}
    ELSE IF o.chunks = "example" THEN ExampleEnds
    ELSE 0..Len(o.body)

FailureStatuses == {400, 401, 403, 404, 429, 499, 500, 599, 600, Undefined}

RetriedStatuses == {429, 500}

LastOutcomes(o) ==
    {Rejects(s) : s \in FailureStatuses} \cup {Streams(LineEvent, "one")}
    \cup (IF o = "streamApi"
          THEN {Breaks(LineEvent, "one", s) : s \in {401, 404, 429, Undefined}}
          ELSE {})

EarlierOutcomes == {Rejects(s) : s \in RetriedStatuses}

RECURSIVE FailuresUpTo(_)
FailuresUpTo(n) ==
    IF n = 0 THEN {<<>>}
    ELSE LET shorter == FailuresUpTo(n - 1)
         IN shorter \cup {Append(p, f) : p \in shorter, f \in EarlierOutcomes}

\* The caller's payload: without a stream field, with stream false, with
\* stream true.
Payloads ==
    {[model |-> "m"], [model |-> "m", stream |-> FALSE], [model |-> "m", stream |-> TRUE]}

Configs ==
    [REQUEST_MAX_RETRIES : {Undefined} \cup 0..MaxConfiguredRetries,
     REQUEST_BASE_DELAY : {Undefined, 500}]

\* The executor's scenarios: every configuration, every run of retried
\* failures followed by every last outcome.
ExecutorScenariosOf(o) ==
    {[variant |-> v, config |-> c, op |-> o, payload |-> b, consumer |-> "pulls",
      transport |-> Append(p, l)] :
        v \in Variants, c \in Configs, b \in Payloads,
        p \in FailuresUpTo(MaxFailures), l \in LastOutcomes(o)}

ExecutorScenarios == ExecutorScenariosOf("callApi") \cup ExecutorScenariosOf("streamApi")

ListScenarios ==
    {[variant |-> v, config |-> c, op |-> "listModels", payload |-> [model |-> "m"],
      consumer |-> "pulls", transport |-> <<l>>] :
        v \in Variants, c \in Configs, l \in LastOutcomes("listModels")}

\* The decoder's scenarios: every body, cut into chunks in every way, ending
\* normally or breaking; a broken stream is followed by a sound one.
DecoderScenarios ==
    {[variant |-> v, config |-> [REQUEST_MAX_RETRIES |-> 1, REQUEST_BASE_DELAY |-> 500],
      op |-> "streamApi", payload |-> [model |-> "m", stream |-> FALSE],
      consumer |-> "pulls", transport |-> t] :
        v \in Variants,
        t \in {<<Streams(b, "any")>> : b \in Bodies}
              \cup {<<Streams(ExampleBody, "example")>>}
              \cup {<<Breaks(b, "any", 429), Streams(LineObject, "one")>> : b \in Bodies}}

\* A consumer that answers one yield with throw(e) instead of next(): in the
\* while loop, in the final flush, in a retried attempt.
ConsumerScenarios ==
    {[variant |-> v, config |-> [REQUEST_MAX_RETRIES |-> 1, REQUEST_BASE_DELAY |-> 500],
      op |-> "streamApi", payload |-> [model |-> "m"], consumer |-> "throws",
      transport |-> t] :
        v \in Variants,
        t \in {<<Streams(LineEvent \o LineEvent, "one")>>,
               <<Streams(LineMalformed \o LineEvent \o DataPrefix \o <<51>>, "one")>>,
               <<Breaks(LineEvent, "one", 429), Streams(LineObject \o LineEvent, "one")>>}}

\* Streams with lines of other fields before, between and after 'data: '
\* lines, and as the unterminated remainder.
OtherLineScenarios ==
    {[variant |-> v, config |-> [REQUEST_MAX_RETRIES |-> 1, REQUEST_BASE_DELAY |-> 500],
      op |-> "streamApi", payload |-> [model |-> "m"], consumer |-> "pulls",
      transport |-> <<Streams(b, "any")>>] :
        v \in Variants,
        b \in {g \o LineUtf8 \o DataPrefix \o <<51>> : g \in OtherLines}
              \cup {LineEvent \o g \o LineMalformed \o LineEvent : g \in OtherLines}
              \cup {LineEvent \o g \o SubSeq(h, 1, Len(h) - 1) : g, h \in OtherLines}}

Scenarios ==
    ExecutorScenarios \cup ListScenarios \cup DecoderScenarios \cup ConsumerScenarios
    \cup OtherLineScenarios

\* ------------------------------------------------------------------------
\* State
\* ------------------------------------------------------------------------

VARIABLES
    variant,     \* which class the service instance is
    config,      \* this.config
    op,          \* per invocation: the method called, "none" if never called
    transport,   \* per invocation: the answers of the transport, attempt by attempt
    payload,     \* per invocation: the caller's object passed as body
    posted,      \* per invocation: the bodies of the POST requests sent so far
    consumer,    \* per invocation: what the consumer of the generator does at a
                 \* yield: "pulls" (next()) always; "throws" an error into the
                 \* generator (throw(e)) once, after which it "threw"
    pc,          \* per invocation: where the call is suspended
    retryCount,  \* per invocation: the retryCount argument of the running call
    attempts,    \* per invocation: the requests sent so far
    waits,       \* per invocation: the delays given to setTimeout so far
    stream,      \* per invocation: the bytes response.data has yet to deliver
    buffer,      \* per invocation: let buffer
    decoder,     \* per invocation: the bytes the StringDecoder holds back
    yielded,     \* per invocation: the events yielded to the consumer, each
                 \* with the retryCount of the call that yielded it
    returned,    \* per invocation: <<value>> once callApi / listModels returned
    thrown,      \* per invocation: <<error>> once the call threw
    warnings,    \* per invocation: the console.warn calls of the line logic
    cuts         \* per invocation: where chunks of the running attempt ended

vars == <<variant, config, op, transport, payload, posted, consumer, pc, retryCount,
          attempts, waits, stream, buffer, decoder, yielded, returned, thrown, warnings,
          cuts>>

UpdShared(f, i, v) == [j \in DOMAIN f |-> v]

\* retryCount is a parameter, buffer and decoder are locals of the generator,
\* the other components are ghosts of the same call: an invocation writes
\* its own.
Upd(f, i, v) == [f EXCEPT ![i] = v]

InitOf(sc) ==
    /\ variant = sc.variant
    /\ config = sc.config
    /\ op = [i \in Inv |-> IF i = "A" THEN sc.op ELSE "none"]
    /\ transport = [i \in Inv |-> IF i = "A" THEN sc.transport ELSE <<Rejects(Undefined)>>]
    /\ payload = [i \in Inv |-> IF i = "A" THEN sc.payload ELSE [model |-> "m"]]
    /\ posted = [i \in Inv |-> <<>>]
    /\ consumer = [i \in Inv |-> IF i = "A" THEN sc.consumer ELSE "pulls"]
    /\ pc = [i \in Inv |-> "idle"]
    /\ retryCount = [i \in Inv |-> 0]
    /\ attempts = [i \in Inv |-> 0]
    /\ waits = [i \in Inv |-> <<>>]
    /\ stream = [i \in Inv |-> <<>>]
    /\ buffer = [i \in Inv |-> <<>>]
    /\ decoder = [i \in Inv |-> <<>>]
    /\ yielded = [i \in Inv |-> <<>>]
    /\ returned = [i \in Inv |-> <<>>]
    /\ thrown = [i \in Inv |-> <<>>]
    /\ warnings = [i \in Inv |-> 0]
    /\ cuts = [i \in Inv |-> {}]

Init == \E sc \in Scenarios : InitOf(sc)

\* The transport's answer to the attempt in flight: the last outcome repeats.
Outcome(i) ==
    LET n == attempts[i]
        t == transport[i]
    IN t[IF n <= Len(t) THEN n ELSE Len(t)]

\* ------------------------------------------------------------------------
\* Steps
\* ------------------------------------------------------------------------

\* await this.axiosInstance.post(endpoint, ...): the request leaves with its
\* body.
Post(i) ==
    /\ attempts' = Upd(attempts, i, attempts[i] + 1)
    /\ posted' = Upd(posted, i, Append(posted[i], requestBody(op[i], payload[i])))
    /\ pc' = Upd(pc, i, "post")

\* await this.axiosInstance.get('/models'): the request leaves, without body.
Get(i) ==
    /\ attempts' = Upd(attempts, i, attempts[i] + 1)
    /\ pc' = Upd(pc, i, "post")
    /\ UNCHANGED posted

CatchWaitsThenDecides(i, status, decision) ==
    /\ waits' = Upd(waits, i,
                    Append(waits[i], delay(baseDelay(variant, config), retryCount[i])))
    /\ IF decision = "retry"
       THEN /\ pc' = Upd(pc, i, "setTimeout")
            /\ UNCHANGED thrown
       ELSE /\ thrown' = Upd(thrown, i, <<[status |-> status, attempt |-> attempts[i]]>>)
            /\ pc' = Upd(pc, i, "thrown")

\* The catch block of callApi and streamApi has decided on an error of this
\* status: wait and retry, or throw.
Catch(i, status, decision) ==
    IF decision = "retry"
    THEN /\ waits' = Upd(waits, i,
                         Append(waits[i], delay(baseDelay(variant, config), retryCount[i])))
         /\ pc' = Upd(pc, i, "setTimeout")
         /\ UNCHANGED thrown
    ELSE /\ thrown' = Upd(thrown, i, <<[status |-> status, attempt |-> attempts[i]]>>)
         /\ pc' = Upd(pc, i, "thrown")
         /\ UNCHANGED waits

\* The while loop has run to r: its next suspension.
Loop(i, r) ==
    /\ buffer' = Upd(buffer, i, r.buffer)
    /\ warnings' = Upd(warnings, i, r.warned)
    /\ IF r.kind = "yield"
       THEN /\ yielded' = Upd(yielded, i,
                              Append(yielded[i], [attempt |-> retryCount[i], ev |-> r.v]))
            /\ pc' = Upd(pc, i, "yield")
       ELSE /\ pc' = Upd(pc, i, IF r.kind = "return" THEN "returned" ELSE "for_await")
            /\ UNCHANGED yielded

\* Where a chunk ends, when inside a character ("char") or inside the
\* 'data: ' prefix of a line ("prefix"): text is the buffer after the write,
\* pending the bytes the decoder holds back.
afterLastLF(text) ==
    LET found == {k \in 1..Len(text) : text[k] = LF}
    IN IF found = {} THEN text
       ELSE SubSeq(text, (CHOOSE k \in found : \A j \in found : k >= j) + 1, Len(text))

CutOf(text, pending) ==
    LET open == afterLastLF(text)
    IN (IF pending # <<>> THEN {"char"} ELSE {})
       \cup (IF open # <<>> /\ Len(open) < Len(DataPrefix) /\ startsWith(DataPrefix, open)
             THEN {"prefix"} ELSE {})

\* callApi(endpoint, body): the first attempt.
callApi(i) ==
    /\ pc[i] = "idle" /\ op[i] = "callApi"
    /\ Post(i)
    /\ UNCHANGED <<variant, config, op, transport, payload, consumer, retryCount, waits,
                   stream, buffer, decoder, yielded, returned, thrown, warnings, cuts>>

\* streamApi(endpoint, body), pulled by its consumer: the first attempt.
streamApi(i) ==
    /\ pc[i] = "idle" /\ op[i] = "streamApi"
    /\ Post(i)
    /\ UNCHANGED <<variant, config, op, transport, payload, consumer, retryCount, waits,
                   stream, buffer, decoder, yielded, returned, thrown, warnings, cuts>>

\* listModels()
listModels(i) ==
    /\ pc[i] = "idle" /\ op[i] = "listModels"
    /\ Get(i)
    /\ UNCHANGED <<variant, config, op, transport, payload, consumer, retryCount, waits,
                   stream, buffer, decoder, yielded, returned, thrown, warnings, cuts>>

\* return response.data; of callApi and listModels.
returnData(i) ==
    /\ pc[i] = "post" /\ op[i] \in {"callApi", "listModels"}
    /\ Outcome(i).status = 200
    /\ returned' = Upd(returned, i, <<[t |-> "data", v |-> attempts[i]]>>)
    /\ pc' = Upd(pc, i, "returned")
    /\ UNCHANGED <<variant, config, op, transport, payload, consumer, posted,
                   retryCount, attempts, waits, stream, buffer, decoder, yielded,
                   thrown, warnings, cuts>>

\* The request of callApi or streamApi rejects: the catch block.
catchRejected(i) ==
    /\ pc[i] = "post" /\ op[i] \in {"callApi", "streamApi"}
    /\ Outcome(i).status # 200
    /\ Catch(i, Outcome(i).status,
             catchBlock(Outcome(i).status, retryCount[i], maxRetries(variant, config)))
    /\ UNCHANGED <<variant, config, op, transport, payload, consumer, posted,
                   retryCount, attempts, stream, buffer, decoder, yielded, returned,
                   warnings, cuts>>

\* The request of listModels rejects: logged and thrown.
listModelsRejected(i) ==
    /\ pc[i] = "post" /\ op[i] = "listModels"
    /\ Outcome(i).status # 200
    /\ Catch(i, Outcome(i).status,
             listModelsCatch(Outcome(i).status, retryCount[i], maxRetries(variant, config)))
    /\ UNCHANGED <<variant, config, op, transport, payload, consumer, posted,
                   retryCount, attempts, stream, buffer, decoder, yielded, returned,
                   warnings, cuts>>

\* The request of streamApi resolves: const stream = response.data;
\* let buffer = ''; const decoder = new StringDecoder('utf8');
streamOpened(i) ==
    /\ pc[i] = "post" /\ op[i] = "streamApi"
    /\ Outcome(i).status = 200
    /\ stream' = Upd(stream, i, Outcome(i).body)
    /\ buffer' = Upd(buffer, i, decodeStateNew(buffer[i], decoder[i]).buffer)
    /\ decoder' = Upd(decoder, i, decodeStateNew(buffer[i], decoder[i]).decoder)
    /\ cuts' = Upd(cuts, i, {})
    /\ pc' = Upd(pc, i, "for_await")
    /\ UNCHANGED <<variant, config, op, transport, payload, consumer, posted,
                   retryCount, attempts, waits, yielded, returned, thrown, warnings>>

\* for await (const chunk of stream): a chunk of n bytes arrives, of at most
\* MaxChunk bytes unless it is all the rest of the body;
\* buffer += decoder.write(chunk); then the while loop.
streamChunk(i) ==
    /\ pc[i] = "for_await"
    /\ \E n \in 0..Len(stream[i]) :
          /\ Len(Outcome(i).body) - Len(stream[i]) + n \in ChunkEnds(Outcome(i))
          /\ n <= MaxChunk \/ n = Len(stream[i]) \/ Outcome(i).chunks = "example"
          /\ LET chunk == SubSeq(stream[i], 1, n)
                 w == decoderWrite(decoder[i], chunk)
             IN /\ stream' = Upd(stream, i, SubSeq(stream[i], n + 1, Len(stream[i])))
                /\ decoder' = Upd(decoder, i, w.rest)
                /\ cuts' = Upd(cuts, i, cuts[i] \cup CutOf(buffer[i] \o w.text, w.rest))
                /\ Loop(i, whileLoop(buffer[i] \o w.text, warnings[i]))
    /\ UNCHANGED <<variant, config, op, transport, payload, consumer, posted,
                   retryCount, attempts, waits, returned, thrown>>

\* The consumer pulls again after a yield inside the while loop.
resumeLoop(i) ==
    /\ pc[i] = "yield"
    /\ Loop(i, whileLoop(buffer[i], warnings[i]))
    /\ UNCHANGED <<variant, config, op, transport, payload, consumer, posted,
                   retryCount, attempts, waits, stream, decoder, returned, thrown,
                   cuts>>

\* The chunk source ends: buffer += decoder.end(); and the final flush.
streamEnd(i) ==
    /\ pc[i] = "for_await" /\ stream[i] = <<>> /\ ~Outcome(i).broken
    /\ LET flushed == buffer[i] \o decoderEnd(decoder[i])
           step == finalFlush(flushed)
       IN /\ buffer' = Upd(buffer, i, flushed)
          /\ decoder' = Upd(decoder, i, <<>>)
          /\ warnings' = Upd(warnings, i, IF step.kind = "warn" THEN warnings[i] + 1 ELSE warnings[i])
          /\ IF step.kind = "yield"
             THEN /\ yielded' = Upd(yielded, i,
                                    Append(yielded[i], [attempt |-> retryCount[i], ev |-> step.v]))
                  /\ pc' = Upd(pc, i, "yield_final")
             ELSE /\ pc' = Upd(pc, i, "returned")
                  /\ UNCHANGED yielded
    /\ UNCHANGED <<variant, config, op, transport, payload, consumer, posted,
                   retryCount, attempts, waits, stream, returned, thrown, cuts>>

\* The consumer answers a yield of the while loop with throw(e): the yield
\* is inside try { JSON.parse; yield } catch (e) { console.warn }, so e is
\* logged as a parse failure and the loop goes on.
throwIntoLoop(i) ==
    /\ pc[i] = "yield" /\ consumer[i] = "throws"
    /\ consumer' = Upd(consumer, i, "threw")
    /\ Loop(i, whileLoop(buffer[i], warnings[i] + 1))
    /\ UNCHANGED <<variant, config, op, transport, payload, posted, retryCount,
                   attempts, waits, stream, decoder, returned, thrown, cuts>>

\* The same at the yield of the final flush: e is logged, the generator ends.
throwIntoFinal(i) ==
    /\ pc[i] = "yield_final" /\ consumer[i] = "throws"
    /\ consumer' = Upd(consumer, i, "threw")
    /\ warnings' = Upd(warnings, i, warnings[i] + 1)
    /\ pc' = Upd(pc, i, "returned")
    /\ UNCHANGED <<variant, config, op, transport, payload, posted, retryCount,
                   attempts, waits, stream, buffer, decoder, yielded, returned, thrown,
                   cuts>>

\* The consumer pulls again after the yield of the final flush: the generator ends.
resumeFinal(i) ==
    /\ pc[i] = "yield_final"
    /\ pc' = Upd(pc, i, "returned")
    /\ UNCHANGED <<variant, config, op, transport, payload, consumer, posted,
                   retryCount, attempts, waits, stream, buffer, decoder, yielded,
                   returned, thrown, warnings, cuts>>

\* The chunk source throws: the for await leaves the try, the catch block runs.
streamBroken(i) ==
    /\ pc[i] = "for_await" /\ stream[i] = <<>> /\ Outcome(i).broken
    /\ Catch(i, Outcome(i).brokenStatus,
             catchInStream(Outcome(i).brokenStatus, retryCount[i], maxRetries(variant, config)))
    /\ UNCHANGED <<variant, config, op, transport, payload, consumer, posted,
                   retryCount, attempts, stream, buffer, decoder, yielded, returned,
                   warnings, cuts>>

\* The timer of the backoff fires: this.callApi / this.streamApi(endpoint,
\* body, isRetry, retryCount + 1), whose result is this call's result.
retry(i) ==
    /\ pc[i] = "setTimeout"
    /\ retryCount' = Upd(retryCount, i, retryCount[i] + 1)
    /\ Post(i)
    /\ UNCHANGED <<variant, config, op, transport, payload, consumer, waits, stream,
                   buffer, decoder, yielded, returned, thrown, warnings, cuts>>

Next ==
    \E i \in Inv :
        \/ callApi(i)
        \/ streamApi(i)
        \/ listModels(i)
        \/ returnData(i)
        \/ catchRejected(i)
        \/ listModelsRejected(i)
        \/ streamOpened(i)
        \/ streamChunk(i)
        \/ resumeLoop(i)
        \/ streamEnd(i)
        \/ resumeFinal(i)
        \/ throwIntoLoop(i)
        \/ throwIntoFinal(i)
        \/ streamBroken(i)
        \/ retry(i)

Spec == Init /\ [][Next]_vars

\* Next can take a step that changes the state: some invocation was called
\* for and has not ended.
EnabledNext == \E i \in Inv : op[i] # "none" /\ pc[i] \notin {"returned", "thrown"}

\* Every request is answered, every stream delivers its chunks and ends or
\* throws, every timer fires, and the consumer answers every yield: a step
\* that can be taken is taken.  This is WF_vars(Next), its
\* ENABLED <<Next>>_vars written out as EnabledNext.
FairSpec == Spec /\ ([]<>~EnabledNext \/ []<><<Next>>_vars)

\* Two invocations on one service instance, their steps interleaved in every
\* way: each is one of the calls of ConcurrentCalls.
ConcurrentCalls ==
    {[op |-> "listModels", payload |-> [model |-> "m"], consumer |-> "pulls",
      transport |-> <<Rejects(429)>>],
     [op |-> "callApi", payload |-> [model |-> "m"], consumer |-> "pulls",
      transport |-> <<Rejects(500), Streams(LineEvent, "one")>>],
     [op |-> "streamApi", payload |-> [model |-> "m", stream |-> FALSE], consumer |-> "pulls",
      transport |-> <<Streams(LineUtf8 \o LineDone, "any")>>],
     [op |-> "streamApi", payload |-> [model |-> "m"], consumer |-> "throws",
      transport |-> <<Breaks(LineMalformed \o DataPrefix \o <<51>>, "any", 429),
                      Streams(LineEvent \o DataPrefix \o <<51>>, "any")>>]}

InitConcurrent ==
    /\ variant \in Variants
    /\ config = [REQUEST_MAX_RETRIES |-> 1, REQUEST_BASE_DELAY |-> 500]
    /\ \E call \in [Inv -> ConcurrentCalls] :
          /\ op = [i \in Inv |-> call[i].op]
          /\ transport = [i \in Inv |-> call[i].transport]
          /\ payload = [i \in Inv |-> call[i].payload]
          /\ consumer = [i \in Inv |-> call[i].consumer]
    /\ posted = [i \in Inv |-> <<>>]
    /\ pc = [i \in Inv |-> "idle"]
    /\ retryCount = [i \in Inv |-> 0]
    /\ attempts = [i \in Inv |-> 0]
    /\ waits = [i \in Inv |-> <<>>]
    /\ stream = [i \in Inv |-> <<>>]
    /\ buffer = [i \in Inv |-> <<>>]
    /\ decoder = [i \in Inv |-> <<>>]
    /\ yielded = [i \in Inv |-> <<>>]
    /\ returned = [i \in Inv |-> <<>>]
    /\ thrown = [i \in Inv |-> <<>>]
    /\ warnings = [i \in Inv |-> 0]
    /\ cuts = [i \in Inv |-> {}]

SpecConcurrent == InitConcurrent /\ [][Next]_vars

\* ------------------------------------------------------------------------
\* What the properties speak of
\* ------------------------------------------------------------------------

Calls == {"callApi", "streamApi"}

Terminal(i) == pc[i] \in {"returned", "thrown"}

\* The transport's answer to the n-th attempt.
OutcomeAt(i, n) ==
    LET t == transport[i]
    IN t[IF n <= Len(t) THEN n ELSE Len(t)]

\* The statuses the specification calls retryable.
IsRetryableStatus(s) == s = 429 \/ s \in 500..599

\* The text of a whole body, decoded at once.
TextOf(bytes) ==
    LET r == utf8Decode(bytes)
    IN r.text \o (IF r.rest = <<>> THEN <<>> ELSE <<REPLACEMENT>>)

\* The text cut at every newline: the complete lines, then what follows the
\* last newline.
RECURSIVE SplitLines(_)
SplitLines(text) ==
    LET found == {k \in 1..Len(text) : text[k] = LF}
    IN IF found = {} THEN <<text>>
       ELSE LET k == CHOOSE k \in found : \A j \in found : k <= j
            IN <<SubSeq(text, 1, k - 1)>> \o SplitLines(SubSeq(text, k + 1, Len(text)))

IsDataLine(line) == startsWith(trim(line), DataPrefix)

PayloadOf(line) == trim(SubSeq(trim(line), Len(DataPrefix) + 1, Len(trim(line))))

IsDoneLine(line) == IsDataLine(line) /\ PayloadOf(line) = DoneSentinel

IsEventLine(line) == IsDataLine(line) /\ ~IsDoneLine(line) /\ JSONparse(PayloadOf(line)).ok

IsMalformedLine(line) == IsDataLine(line) /\ ~IsDoneLine(line) /\ ~JSONparse(PayloadOf(line)).ok

\* The events of the lines that precede the first [DONE] line.
EventsOfLines(lines) ==
    LET dones == {j \in 1..Len(lines) : IsDoneLine(lines[j])}
        stop == IF dones = {} THEN Len(lines) + 1
                ELSE CHOOSE j \in dones : \A k \in dones : j <= k
        sel == SelectSeq(SubSeq(lines, 1, stop - 1), IsEventLine)
    IN [j \in 1..Len(sel) |-> JSONparse(PayloadOf(sel[j])).v]

\* The events of a body that ends normally: those of all its lines, the
\* unterminated remainder included.
EventsOfBody(bytes) == EventsOfLines(SplitLines(TextOf(bytes)))

\* The complete lines of a body: all but the unterminated remainder.
CompleteLines(bytes) ==
    LET lines == SplitLines(utf8Decode(bytes).text)
    IN SubSeq(lines, 1, Len(lines) - 1)

HasDoneLine(lines) == \E j \in 1..Len(lines) : IsDoneLine(lines[j])

\* The events invocation i yielded in the call with this retryCount.
YieldedIn(i, count) ==
    LET sel == SelectSeq(yielded[i], LAMBDA y : y.attempt = count)
    IN [j \in 1..Len(sel) |-> sel[j].ev]

\* The n-th attempt fails: its request rejects, or its stream breaks before
\* any [DONE] line ended it.
FailsWith(o) ==
    IF o.status # 200 THEN <<o.status>>
    ELSE IF o.broken /\ ~HasDoneLine(CompleteLines(o.body)) THEN <<o.brokenStatus>>
    ELSE <<>>

\* The n-th attempt is still running.
InFlight(i, n) == attempts[i] = n /\ pc[i] \in {"post", "for_await", "yield", "yield_final"}

\* ------------------------------------------------------------------------
\* C1
\* ------------------------------------------------------------------------

\* The transport of i fails retryably k times and then succeeds.
FailsThenSucceeds(i, k) ==
    /\ Len(transport[i]) = k + 1
    /\ \A n \in 1..k : /\ FailsWith(transport[i][n]) # <<>>
                       /\ IsRetryableStatus(FailsWith(transport[i][n])[1])
    /\ FailsWith(transport[i][k + 1]) = <<>>
    /\ ~transport[i][k + 1].broken

\* C1: a call of callApi or streamApi whose transport fails with a retryable
\* status k times in a row and then succeeds, k <= maxRetries, ends returned
\* after exactly k + 1 attempts, having waited exactly baseDelay * 2^n before
\* retry n (n = 0..k-1), with the payload of the successful attempt: the
\* response data of attempt k + 1, or the events of its stream.  maxRetries
\* and baseDelay are the call's own values, and numbers.
C1_RetriesThenSucceeds ==
    \A i \in Inv :
        LET k == Len(transport[i]) - 1
            max == maxRetries(variant, config)
            base == baseDelay(variant, config)
        IN (/\ op[i] \in Calls
            /\ Terminal(i)
            /\ FailsThenSucceeds(i, k)
            /\ IsNumber(max) /\ k <= max
            /\ IsNumber(base))
           => /\ pc[i] = "returned"
              /\ attempts[i] = k + 1
              /\ waits[i] = [n \in 1..k |-> base * 2^(n - 1)]
              /\ op[i] = "callApi" => returned[i] = <<[t |-> "data", v |-> k + 1]>>
              /\ op[i] = "streamApi" =>
                    YieldedIn(i, k) = EventsOfBody(transport[i][k + 1].body)

\* 429, 429, success with maxRetries = 3: three attempts, waits baseDelay and
\* 2 * baseDelay; and three failures before the success: a third wait of
\* 4 * baseDelay.
C1_Witness ==
    \E i \in Inv :
        /\ pc[i] = "returned"
        /\ op[i] = "streamApi"
        /\ maxRetries(variant, config) = 3
        /\ attempts[i] = 3
        /\ transport[i] = <<Rejects(429), Rejects(429), Streams(LineEvent, "one")>>
        /\ waits[i] = <<500, 1000>>
        /\ yielded[i] = <<[attempt |-> 2, ev |-> [t |-> "num", v |-> 1]]>>

\* ------------------------------------------------------------------------
\* C2
\* ------------------------------------------------------------------------

\* C2: an attempt of callApi or streamApi that fails with status 401 or 403
\* is the call's last: once the failure is seen the call has thrown that
\* attempt's error, no wait was started for it (one wait per earlier attempt)
\* and no further attempt is made, whatever retryCount and maxRetries are.
C2_AuthFailurePropagates ==
    \A i \in Inv : \A n \in 1..attempts[i] :
        (/\ op[i] \in Calls
         /\ FailsWith(OutcomeAt(i, n)) \in {<<401>>, <<403>>})
        => \/ InFlight(i, n)
           \/ /\ pc[i] = "thrown"
              /\ attempts[i] = n
              /\ thrown[i] = <<[status |-> FailsWith(OutcomeAt(i, n))[1], attempt |-> n]>>
              /\ Len(waits[i]) = n - 1

\* A 401 after two retried failures, with retries left.
C2_Witness ==
    \E i \in Inv :
        /\ pc[i] = "thrown"
        /\ op[i] = "callApi"
        /\ transport[i] = <<Rejects(429), Rejects(500), Rejects(401)>>
        /\ attempts[i] = 3
        /\ retryCount[i] = 2
        /\ maxRetries(variant, config) = 3
        /\ Len(waits[i]) = 2
        /\ thrown[i] = <<[status |-> 401, attempt |-> 3]>>

\* ------------------------------------------------------------------------
\* C3
\* ------------------------------------------------------------------------

\* C3: with REQUEST_MAX_RETRIES configured as a number >= 0 (0 included), a
\* call of callApi or streamApi makes at most that number + 1 attempts, and
\* a call that threw a retryable failure had used the whole budget:
\* retryCount = REQUEST_MAX_RETRIES.
C3_AtMostMaxRetriesPlusOneAttempts ==
    \A i \in Inv :
        (op[i] \in Calls /\ IsNumber(config.REQUEST_MAX_RETRIES))
        => /\ attempts[i] <= config.REQUEST_MAX_RETRIES + 1
           /\ (pc[i] = "thrown" /\ IsRetryableStatus(thrown[i][1].status))
                 => retryCount[i] = config.REQUEST_MAX_RETRIES

\* ------------------------------------------------------------------------
\* C8
\* ------------------------------------------------------------------------

\* C8: with REQUEST_MAX_RETRIES and REQUEST_BASE_DELAY not set, a call of
\* callApi or streamApi whose transport always answers 429 ends thrown after
\* exactly 4 attempts and waits of 1000, 2000 and 4000 ms, in both variants.
C8_DefaultsWhenUnset ==
    \A i \in Inv :
        (/\ op[i] \in Calls
         /\ Terminal(i)
         /\ config.REQUEST_MAX_RETRIES = Undefined
         /\ config.REQUEST_BASE_DELAY = Undefined
         /\ transport[i] = <<Rejects(429)>>)
        => /\ pc[i] = "thrown"
           /\ attempts[i] = 4
           /\ waits[i] = <<1000, 2000, 4000>>
           /\ thrown[i] = <<[status |-> 429, attempt |-> 4]>>

\* ------------------------------------------------------------------------
\* C9
\* ------------------------------------------------------------------------

\* C9: a failed attempt of callApi or streamApi is retried only if its
\* status is 429 or in 500..599.  An attempt that fails with any other
\* status, or with none, is the call's last: the call throws that attempt's
\* error with no wait started for it and no further attempt, whatever budget
\* is left; and a call that threw on a status of 429 or 500..599 had no
\* budget left (not retryCount < maxRetries).
C9_OnlyRetryableStatusesRetried ==
    \A i \in Inv :
        /\ \A n \in 1..attempts[i] :
              (/\ op[i] \in Calls
               /\ FailsWith(OutcomeAt(i, n)) # <<>>
               /\ ~IsRetryableStatus(FailsWith(OutcomeAt(i, n))[1]))
              => \/ InFlight(i, n)
                 \/ /\ pc[i] = "thrown"
                    /\ attempts[i] = n
                    /\ thrown[i] = <<[status |-> FailsWith(OutcomeAt(i, n))[1], attempt |-> n]>>
                    /\ Len(waits[i]) = n - 1
        /\ (op[i] \in Calls /\ pc[i] = "thrown" /\ IsRetryableStatus(thrown[i][1].status))
              => ~(/\ IsNumber(maxRetries(variant, config))
                   /\ retryCount[i] < maxRetries(variant, config))

\* A 600 after a retried failure, and an error without a response after a
\* retried failure, each with retries left.
C9_Witness ==
    \E i \in Inv :
        /\ pc[i] = "thrown"
        /\ op[i] = "streamApi"
        /\ transport[i] = <<Rejects(500), Rejects(600)>>
        /\ attempts[i] = 2
        /\ retryCount[i] = 1
        /\ maxRetries(variant, config) = 2
        /\ waits[i] = <<500>>
        /\ thrown[i] = <<[status |-> 600, attempt |-> 2]>>

\* ------------------------------------------------------------------------
\* C4
\* ------------------------------------------------------------------------

\* The bytes the running attempt has read from response.data.
Consumed(i) == SubSeq(Outcome(i).body, 1, Len(Outcome(i).body) - Len(stream[i]))

IsPrefixOf(a, b) == Len(a) <= Len(b) /\ a = SubSeq(b, 1, Len(a))

\* {"a":1}
ExampleEvent == [t |-> "obj", v |-> << <<(<<97>>), [t |-> "num", v |-> 1]>> >>]

\* C4: however the chunk source cuts the bytes of a stream that ends
\* normally, the events streamApi yields are those of the whole body: at
\* every moment a prefix of them, all of them once the generator returned;
\* so any two ways of cutting give the same events.  The chunks
\* 'data: {"a":', '1}\n\n', 'data: [DONE]\n' give the one event {"a":1}.
C4_ChunkingIndependent ==
    \A i \in Inv :
        (/\ op[i] = "streamApi"
         /\ pc[i] \in {"for_await", "yield", "yield_final", "returned"}
         /\ ~Outcome(i).broken)
        => /\ IsPrefixOf(YieldedIn(i, retryCount[i]), EventsOfBody(Outcome(i).body))
           /\ pc[i] = "returned" =>
                 YieldedIn(i, retryCount[i]) = EventsOfBody(Outcome(i).body)
           /\ (pc[i] = "returned" /\ Outcome(i).chunks = "example") =>
                 yielded[i] = <<[attempt |-> 0, ev |-> ExampleEvent]>>

\* A body of two events, the second with a two-byte character, cut inside
\* that character and inside a 'data: ' prefix.
C4_Witness ==
    \E i \in Inv :
        /\ pc[i] = "returned"
        /\ transport[i] = <<Streams(LineEvent \o LineUtf8, "any")>>
        /\ cuts[i] = {"char", "prefix"}
        /\ yielded[i] = <<[attempt |-> 0, ev |-> [t |-> "num", v |-> 1]],
                          [attempt |-> 0, ev |-> [t |-> "str", v |-> <<233>>]]>>

\* ------------------------------------------------------------------------
\* C5
\* ------------------------------------------------------------------------

\* C5: a stream whose complete lines hold a [DONE] line ends the call
\* returned, without error, wait or retry, having yielded exactly the events
\* of the lines before the first [DONE], also when response.data would have
\* thrown later; no chunk is asked for once the bytes read hold a complete
\* [DONE] line.  A [DONE] that is the unterminated remainder of a stream that
\* ends yields no event either.
C5_DoneEndsSession ==
    \A i \in Inv :
        /\ (op[i] = "streamApi" /\ pc[i] = "for_await")
              => ~HasDoneLine(CompleteLines(Consumed(i)))
        /\ \A n \in 1..attempts[i] :
              LET o == OutcomeAt(i, n)
                  lines == SplitLines(TextOf(o.body))
              IN /\ (/\ op[i] = "streamApi" /\ o.status = 200
                     /\ HasDoneLine(CompleteLines(o.body)))
                    => /\ attempts[i] = n
                       /\ pc[i] \in {"post", "for_await", "yield", "returned"}
                       /\ pc[i] = "returned" =>
                             /\ YieldedIn(i, n - 1) = EventsOfLines(CompleteLines(o.body))
                             /\ thrown[i] = <<>>
                             /\ Len(waits[i]) = n - 1
                 /\ (/\ op[i] = "streamApi" /\ o.status = 200 /\ ~o.broken
                     /\ IsDoneLine(lines[Len(lines)])
                     /\ (attempts[i] > n \/ pc[i] \notin {"post", "for_await", "yield"}))
                    => /\ attempts[i] = n
                       /\ pc[i] = "returned"
                       /\ YieldedIn(i, n - 1) = EventsOfLines(CompleteLines(o.body))

\* [DONE] after one event, before a line and a remainder that would be
\* events and before the error of response.data: returned with bytes unread.
C5_Witness ==
    \E i \in Inv :
        /\ pc[i] = "returned"
        /\ transport[i] = <<Breaks(LineEvent \o LineDone \o DataPrefix \o <<51>>, "any", 429),
                            Streams(LineObject, "one")>>
        /\ stream[i] # <<>>
        /\ yielded[i] = <<[attempt |-> 0, ev |-> [t |-> "num", v |-> 1]]>>
        /\ attempts[i] = 1

\* ------------------------------------------------------------------------
\* C6
\* ------------------------------------------------------------------------

\* The lines of a body that the decoder gets to: those before the first
\* [DONE] line; the remainder only if the stream ends normally.
LinesReached(o) ==
    LET lines == IF o.broken THEN CompleteLines(o.body) ELSE SplitLines(TextOf(o.body))
        dones == {j \in 1..Len(lines) : IsDoneLine(lines[j])}
    IN SubSeq(lines, 1, IF dones = {} THEN Len(lines)
                        ELSE (CHOOSE j \in dones : \A k \in dones : j <= k) - 1)

\* C6: in a first attempt whose stream holds 'data: ' lines with a payload
\* that is no JSON, each such line the decoder gets to is logged once and
\* yields nothing, the call neither throws nor retries because of it, and
\* every valid 'data: ' line before any [DONE] is yielded, those after the
\* malformed line included.
C6_MalformedLineSkipped ==
    \A i \in Inv :
        LET o == OutcomeAt(i, 1)
            reached == LinesReached(o)
        IN (/\ op[i] = "streamApi" /\ attempts[i] >= 1 /\ o.status = 200
            /\ \E j \in 1..Len(reached) : IsMalformedLine(reached[j])
            /\ (attempts[i] > 1 \/ pc[i] \in {"returned", "thrown", "setTimeout"}))
           => /\ YieldedIn(i, 0) = EventsOfLines(reached)
              /\ (attempts[i] = 1 /\ consumer[i] # "threw")
                    => warnings[i] = Len(SelectSeq(reached, IsMalformedLine))
              /\ FailsWith(o) = <<>> => /\ pc[i] = "returned"
                                        /\ attempts[i] = 1
                                        /\ waits[i] = <<>>

\* A malformed line, then a valid one.
C6_Witness ==
    \E i \in Inv :
        /\ pc[i] = "returned"
        /\ transport[i] = <<Streams(LineMalformed \o LineEvent, "any")>>
        /\ warnings[i] = 1
        /\ yielded[i] = <<[attempt |-> 0, ev |-> [t |-> "num", v |-> 1]]>>

\* ------------------------------------------------------------------------
\* C7
\* ------------------------------------------------------------------------

\* C7: when response.data ends and no [DONE] line was seen, the buffer is
\* what follows the last newline of the whole text, the decoder's residue
\* as U+FFFD included, and the line logic is applied once to it: the events
\* yielded are those of the complete lines and then, if the remainder is a
\* 'data: ' line of valid JSON, its event, once and last.
C7_FinalFlush ==
    \A i \in Inv :
        LET o == Outcome(i)
            lines == SplitLines(TextOf(o.body))
            remainder == lines[Len(lines)]
            flushed == IF IsEventLine(remainder)
                       THEN <<JSONparse(PayloadOf(remainder)).v>> ELSE <<>>
        IN (/\ op[i] = "streamApi"
            /\ pc[i] \in {"yield_final", "returned"}
            /\ ~HasDoneLine(CompleteLines(o.body)))
           => /\ buffer[i] = remainder
              /\ YieldedIn(i, retryCount[i]) = EventsOfLines(CompleteLines(o.body)) \o flushed
              /\ pc[i] = "yield_final" => flushed # <<>>

\* 'data: 1\n' and the remainder 'data: 3' without a newline.
C7_Witness ==
    \E i \in Inv :
        /\ pc[i] = "returned"
        /\ transport[i] = <<Streams(LineEvent \o DataPrefix \o <<51>>, "any")>>
        /\ yielded[i] = <<[attempt |-> 0, ev |-> [t |-> "num", v |-> 1]],
                          [attempt |-> 0, ev |-> [t |-> "num", v |-> 3]]>>

\* ------------------------------------------------------------------------
\* C10
\* ------------------------------------------------------------------------

Sorted(s) == \A a, b \in 1..Len(s) : a <= b => s[a].attempt <= s[b].attempt

\* C10: a streamApi attempt whose response.data throws an error of status
\* 429 or 500..599 while retryCount < maxRetries is followed, after the
\* backoff delay, by a new attempt; the failed attempt has yielded the events
\* of the complete lines it read and nothing further (its remainder is not
\* flushed), and the new attempt's events follow them on the same sequence,
\* from its first event on.  Such an error ends the call only when
\* retryCount < maxRetries is false.
C10_MidStreamRetryRestarts ==
    \A i \in Inv :
        LET max == maxRetries(variant, config)
            base == baseDelay(variant, config)
        IN /\ \A n \in 1..(attempts[i] - 1) :
                 LET o == OutcomeAt(i, n)
                     next == OutcomeAt(i, n + 1)
                 IN (op[i] = "streamApi" /\ o.status = 200)
                    => /\ o.broken /\ IsRetryableStatus(o.brokenStatus)
                       /\ YieldedIn(i, n - 1) = EventsOfLines(CompleteLines(o.body))
                       /\ IsNumber(base) => waits[i][n] = base * 2^(n - 1)
                       /\ Sorted(yielded[i])
                       /\ (/\ attempts[i] = n + 1 /\ pc[i] = "returned"
                           /\ next.status = 200 /\ ~next.broken)
                          => YieldedIn(i, n) = EventsOfBody(next.body)
           /\ (/\ op[i] = "streamApi" /\ pc[i] = "thrown"
               /\ Outcome(i).status = 200
               /\ IsRetryableStatus(Outcome(i).brokenStatus))
              => ~(IsNumber(max) /\ retryCount[i] < max)

\* A stream that breaks with 429 after the event 1 and an unterminated
\* 'data: 3', then a stream with the event {"a":1}.
C10_Witness ==
    \E i \in Inv :
        /\ pc[i] = "returned"
        /\ transport[i] = <<Breaks(LineEvent \o DataPrefix \o <<51>>, "any", 429),
                            Streams(LineObject, "one")>>
        /\ waits[i] = <<500>>
        /\ attempts[i] = 2
        /\ yielded[i] = <<[attempt |-> 0, ev |-> [t |-> "num", v |-> 1]],
                          [attempt |-> 1, ev |-> ExampleEvent]>>

\* ------------------------------------------------------------------------
\* C11
\* ------------------------------------------------------------------------

\* What each attempt is to send: the payload as given for callApi;
\* for streamApi the payload's fields with stream true.
SentAsRequired(i, sent) ==
    IF op[i] = "callApi" THEN sent = payload[i]
    ELSE /\ DOMAIN sent = DOMAIN payload[i] \cup {"stream"}
         /\ sent.stream = TRUE
         /\ \A k \in DOMAIN payload[i] \ {"stream"} : sent[k] = payload[i][k]

\* C11: the caller's payload object is never modified; every attempt of a
\* callApi call (the first and each retry) posts the payload as given, every
\* attempt of a streamApi call posts the payload with stream true, also when
\* the payload says stream false; a retry adds 1 to retryCount and posts the
\* body the attempt before it posted.
C11_PayloadUntouchedSameBodyEachAttempt ==
    /\ [](\A i \in Inv :
             op[i] \in {"callApi", "streamApi"}
             => /\ Len(posted[i]) = attempts[i]
                /\ \A n \in 1..Len(posted[i]) : SentAsRequired(i, posted[i][n]))
    /\ [][/\ payload' = payload
          /\ \A i \in Inv :
                retryCount'[i] # retryCount[i]
                => /\ retryCount'[i] = retryCount[i] + 1
                   /\ Len(posted'[i]) = Len(posted[i]) + 1
                   /\ posted'[i][Len(posted'[i])] = posted[i][Len(posted[i])]]_vars

\* streamApi with a payload that says stream false, retried twice.
C11_Witness ==
    \E i \in Inv :
        /\ op[i] = "streamApi"
        /\ payload[i] = [model |-> "m", stream |-> FALSE]
        /\ retryCount[i] = 2
        /\ posted[i] = <<[model |-> "m", stream |-> TRUE], [model |-> "m", stream |-> TRUE],
                         [model |-> "m", stream |-> TRUE]>>

\* ------------------------------------------------------------------------
\* C12
\* ------------------------------------------------------------------------

\* C12: a callApi or streamApi call that throws, throws the error of its
\* last attempt, with that attempt's status; and the errors caught and only
\* logged during a call are the JSON parse failures of 'data: ' lines, one
\* for each malformed line the decoder got to, and no others.
C12_ErrorsUnchangedOnlyParseFailureAbsorbed ==
    \A i \in Inv :
        op[i] \in {"callApi", "streamApi"}
        => /\ pc[i] = "thrown"
              => LET o == OutcomeAt(i, attempts[i])
                 IN thrown[i] = <<[status |-> IF o.status = 200 THEN o.brokenStatus
                                              ELSE o.status,
                                   attempt |-> attempts[i]]>>
           /\ (attempts[i] = 1 /\ pc[i] \in {"returned", "thrown", "setTimeout"})
              => warnings[i] = Len(SelectSeq(LinesReached(OutcomeAt(i, 1)), IsMalformedLine))

\* ------------------------------------------------------------------------
\* C13
\* ------------------------------------------------------------------------

\* C13: a listModels call sends one GET and no more, whatever the answer: a
\* failure of any status, 429 and 5xx included, is thrown as it is with no
\* wait and no retry, also when REQUEST_MAX_RETRIES would allow retries;
\* retryCount stays 0.
C13_ListModelsSingleAttempt ==
    \A i \in Inv :
        op[i] = "listModels"
        => /\ attempts[i] <= 1
           /\ retryCount[i] = 0
           /\ waits[i] = <<>>
           /\ posted[i] = <<>>
           /\ pc[i] \in {"idle", "post", "returned", "thrown"}
           /\ (pc[i] \in {"returned", "thrown"}) => attempts[i] = 1
           /\ (pc[i] \in {"returned", "thrown"})
                 => (pc[i] = "thrown" <=> transport[i][1].status # 200)
           /\ pc[i] = "thrown"
                 => thrown[i] = <<[status |-> transport[i][1].status, attempt |-> 1]>>

\* listModels answered 429 on a service instance that retries callApi up to
\* three times.
C13_Witness ==
    \E i \in Inv :
        /\ op[i] = "listModels"
        /\ pc[i] = "thrown"
        /\ thrown[i] = <<[status |-> 429, attempt |-> 1]>>
        /\ maxRetries(variant, config) = 3
        /\ IsNumber(baseDelay(variant, config))

\* ------------------------------------------------------------------------
\* C14
\* ------------------------------------------------------------------------

\* The text of the first k lines, their newlines included, is what the
\* buffer has lost of the text read so far.
AfterLines(text, k) ==
    LET found == {j \in 1..Len(text) : text[j] = LF}
        upTo == {j \in found : Cardinality({h \in found : h <= j}) = k}
    IN IF k = 0 THEN text
       ELSE SubSeq(text, (CHOOSE j \in upTo : TRUE) + 1, Len(text))

\* C14: within one stream attempt the events come one for each valid
\* 'data: ' line before the first [DONE], in the order of the lines'
\* newlines in the byte stream: whenever the generator waits for the next
\* chunk it has yielded exactly the events of the complete lines read so
\* far, and whenever it is suspended at a yield it has yielded exactly the
\* events of the complete lines up to the one just yielded, the lines after
\* it still in the buffer; so when several lines come in one chunk, or one
\* line in several chunks.
C14_EventsInLineOrder ==
    \A i \in Inv :
        LET lines == CompleteLines(Consumed(i))
            text == TextOf(Consumed(i))
            got == YieldedIn(i, retryCount[i])
        IN /\ (op[i] = "streamApi" /\ pc[i] = "for_await")
              => /\ got = EventsOfLines(lines)
                 /\ Len(got) = Len(SelectSeq(lines, IsEventLine))
           /\ (op[i] = "streamApi" /\ pc[i] = "yield")
              => \E k \in 1..Len(lines) :
                    /\ IsEventLine(lines[k])
                    /\ ~HasDoneLine(SubSeq(lines, 1, k))
                    /\ got = EventsOfLines(SubSeq(lines, 1, k))
                    /\ Len(got) = Len(SelectSeq(SubSeq(lines, 1, k), IsEventLine))
                    /\ decoder[i] = <<>> => buffer[i] = AfterLines(text, k)

\* The line of the two-byte character came in several chunks, the last of
\* which also held the whole next line.
C14_Witness ==
    \E i \in Inv :
        /\ pc[i] = "yield"
        /\ transport[i] = <<Streams(LineUtf8 \o LineEvent, "any")>>
        /\ "char" \in cuts[i]
        /\ yielded[i] = <<[attempt |-> 0, ev |-> [t |-> "str", v |-> <<233>>]]>>
        /\ buffer[i] = LineEvent

\* ------------------------------------------------------------------------
\* C15
\* ------------------------------------------------------------------------

\* All that belongs to invocation i.
Locals(i) ==
    <<op[i], transport[i], payload[i], posted[i], consumer[i], pc[i], retryCount[i],
      attempts[i], waits[i], stream[i], buffer[i], decoder[i], yielded[i], returned[i],
      thrown[i], warnings[i], cuts[i]>>

Tagged(events, count) == [j \in 1..Len(events) |-> [attempt |-> count, ev |-> events[j]]]

\* The result of a call of operation o over the transport answers t when it
\* runs alone, from its n-th attempt on: the attempts made, the waits, the
\* events, and how it ends.
RECURSIVE RunAlone(_, _, _, _, _)
RunAlone(o, t, n, waited, events) ==
    LET out == t[IF n <= Len(t) THEN n ELSE Len(t)]
        fails == IF o = "streamApi" THEN FailsWith(out)
                 ELSE IF out.status # 200 THEN <<out.status>> ELSE <<>>
        got == IF o = "streamApi" /\ out.status = 200
               THEN events \o Tagged(EventsOfLines(LinesReached(out)), n - 1)
               ELSE events
        retries == /\ fails # <<>>
                   /\ o # "listModels"
                   /\ IsRetryableStatus(fails[1])
                   /\ lessThan(n - 1, maxRetries(variant, config))
    IN IF fails = <<>>
       THEN [attempts |-> n, waits |-> waited, yielded |-> got, pc |-> "returned",
             thrown |-> <<>>]
       ELSE IF retries
       THEN RunAlone(o, t, n + 1,
                     Append(waited, IF IsNumber(baseDelay(variant, config))
                                    THEN baseDelay(variant, config) * 2^(n - 1)
                                    ELSE NaN), got)
       ELSE [attempts |-> n, waits |-> waited, yielded |-> got, pc |-> "thrown",
             thrown |-> <<[status |-> fails[1], attempt |-> n]>>]

\* C15: invocations of callApi, streamApi and listModels on one service
\* instance, interleaved in every way at their suspension points, each end
\* with the attempts, waits, events and outcome they have when run alone;
\* a step of one invocation changes nothing that belongs to another.
C15_InvocationsIndependent ==
    /\ [](\A i \in Inv :
             Terminal(i)
             => LET alone == RunAlone(op[i], transport[i], 1, <<>>, <<>>)
                IN /\ attempts[i] = alone.attempts
                   /\ waits[i] = alone.waits
                   /\ yielded[i] = alone.yielded
                   /\ pc[i] = alone.pc
                   /\ thrown[i] = alone.thrown)
    /\ [][\E i \in Inv : \A j \in Inv \ {i} : Locals(j)' = Locals(j)]_vars

\* Both streams open at once, each with text in its buffer, one also with a
\* byte held by its decoder; and later both ended.
C15_Witness ==
    /\ op["A"] = "streamApi" /\ op["B"] = "streamApi"
    /\ transport["A"] # transport["B"]
    /\ pc["A"] = "for_await" /\ pc["B"] = "for_await"
    /\ buffer["A"] # <<>> /\ buffer["B"] # <<>> /\ buffer["A"] # buffer["B"]
    /\ decoder["A"] # <<>>
    /\ retryCount["B"] = 1

\* ------------------------------------------------------------------------
\* C16
\* ------------------------------------------------------------------------

\* The blank line, the comment, the id, event and retry fields, and data:
\* without the space.
IsOtherLine(line) ==
    \E g \in OtherLines : trim(line) = trim(SubSeq(g, 1, Len(g) - 1))

\* C16: in a first attempt whose stream ends normally, the lines that after
\* trimming are blank, a comment, an id, event or retry field, or data:
\* without the space, yield no event, are not logged, and neither end nor
\* fail the session: the call returns, without wait or retry, and its events
\* and warnings are those of the same lines with these lines taken out.
C16_OtherLinesIgnored ==
    \A i \in Inv :
        LET o == OutcomeAt(i, 1)
            lines == SplitLines(TextOf(o.body))
            others == SelectSeq(lines, IsOtherLine)
            kept == SelectSeq(lines, LAMBDA l : ~IsOtherLine(l))
            dones == {j \in 1..Len(kept) : IsDoneLine(kept[j])}
            reached == SubSeq(kept, 1, IF dones = {} THEN Len(kept)
                                       ELSE (CHOOSE j \in dones : \A k \in dones : j <= k) - 1)
        IN (/\ op[i] = "streamApi" /\ attempts[i] >= 1
            /\ o.status = 200 /\ ~o.broken
            /\ others # <<>>
            /\ (attempts[i] > 1 \/ pc[i] \in {"returned", "thrown", "setTimeout"}))
           => /\ pc[i] = "returned"
              /\ attempts[i] = 1
              /\ waits[i] = <<>>
              /\ YieldedIn(i, 0) = EventsOfLines(reached)
              /\ consumer[i] # "threw" => warnings[i] = Len(SelectSeq(reached, IsMalformedLine))

\* 'event: data: 1' between two events, and a malformed line.
C16_Witness ==
    \E i \in Inv :
        /\ pc[i] = "returned"
        /\ transport[i] = <<Streams(LineEvent \o LineEventField \o LineMalformed \o LineEvent, "any")>>
        /\ warnings[i] = 1
        /\ yielded[i] = <<[attempt |-> 0, ev |-> [t |-> "num", v |-> 1]],
                          [attempt |-> 0, ev |-> [t |-> "num", v |-> 1]]>>

\* ------------------------------------------------------------------------
\* C17
\* ------------------------------------------------------------------------

\* C17: a call that was made ends, returned or thrown, when every request
\* is answered, every stream ends and the consumer keeps answering the
\* yields; retryCount starts at 0, changes only by +1, and is never more
\* than the call's maxRetries, so the retries of a call are bounded.
C17_EveryCallTerminates ==
    /\ \A i \in Inv : retryCount[i] = 0
    /\ [][\A i \in Inv : retryCount'[i] \in {retryCount[i], retryCount[i] + 1}]_vars
    /\ [](\A i \in Inv :
             retryCount[i] > 0
             => /\ IsNumber(maxRetries(variant, config))
                /\ retryCount[i] <= maxRetries(variant, config))
    /\ \A i \in Inv : (pc[i] # "idle") ~> Terminal(i)

\* A call that used its whole budget of three retries and threw.
C17_Witness ==
    \E i \in Inv :
        /\ op[i] \in Calls
        /\ pc[i] = "thrown"
        /\ maxRetries(variant, config) = 3
        /\ retryCount[i] = 3
        /\ attempts[i] = 4

\* ------------------------------------------------------------------------
\* C18
\* ------------------------------------------------------------------------

\* C18: a stream attempt that ends by an error of response.data has had the
\* final flush of a normal end: when the attempt is over, its events are
\* those of all its lines, the unterminated remainder included.
C18_FlushOnStreamError ==
    \A i \in Inv :
        \A n \in 1..attempts[i] :
            LET o == OutcomeAt(i, n)
            IN (/\ op[i] = "streamApi" /\ o.status = 200 /\ o.broken
                /\ ~HasDoneLine(CompleteLines(o.body))
                /\ (attempts[i] > n \/ pc[i] \in {"thrown", "setTimeout"}))
               => YieldedIn(i, n - 1) = EventsOfBody(o.body)

\* ------------------------------------------------------------------------
\* C19
\* ------------------------------------------------------------------------

\* C19: every stream attempt, a retried one too, starts with an empty buffer
\* and a decoder that holds nothing, whatever text or bytes the failed
\* attempt left; so a retried attempt has, whenever it waits for a chunk,
\* yielded the events of the complete lines of its own bytes, and when it
\* ends normally the events of its own body, as a first attempt does.
C19_FreshDecodeStatePerAttempt ==
    \A i \in Inv :
        (op[i] = "streamApi" /\ attempts[i] >= 1 /\ Outcome(i).status = 200)
        => /\ (pc[i] = "for_await" /\ Len(stream[i]) = Len(Outcome(i).body))
                 => buffer[i] = <<>> /\ decoder[i] = <<>>
           /\ (retryCount[i] >= 1 /\ pc[i] = "for_await")
                 => /\ YieldedIn(i, retryCount[i]) = EventsOfLines(CompleteLines(Consumed(i)))
                    /\ buffer[i] = afterLastLF(utf8Decode(Consumed(i)).text)
                    /\ decoder[i] = utf8Decode(Consumed(i)).rest
           /\ (retryCount[i] >= 1 /\ pc[i] = "returned" /\ ~Outcome(i).broken)
                 => YieldedIn(i, retryCount[i]) = EventsOfBody(Outcome(i).body)

\* The first stream broke with 'data: 1' in the buffer and the first byte
\* of a character in the decoder; the second stream's event came whole.
C19_Witness ==
    \E i \in Inv :
        /\ pc[i] = "returned"
        /\ retryCount[i] = 1
        /\ transport[i] = <<Breaks(LineEvent \o DataPrefix \o <<49, 195>>, "any", 429),
                            Streams(LineObject, "one")>>
        /\ yielded[i] = <<[attempt |-> 0, ev |-> [t |-> "num", v |-> 1]],
                          [attempt |-> 1, ev |-> ExampleEvent]>>

\* ------------------------------------------------------------------------
\* C20
\* ------------------------------------------------------------------------

RECURSIVE SumOf(_)
SumOf(seq) == IF seq = <<>> THEN 0 ELSE seq[1] + SumOf(Tail(seq))

\* C20: a call waits only between two attempts: not before the first, not
\* after the last, be it a success, a fatal status or the end of the
\* budget; each wait is followed by an attempt.  With r retries made and a
\* numeric baseDelay the waits add up to baseDelay * (2^r - 1), at most
\* baseDelay * (2^maxRetries - 1), and each wait is twice the one before.
C20_WaitsOnlyBetweenAttempts ==
    \A i \in Inv :
        LET base == baseDelay(variant, config)
            max == maxRetries(variant, config)
            r == Len(waits[i])
        IN op[i] \in Calls
           => /\ r = IF pc[i] = "setTimeout" THEN attempts[i]
                     ELSE IF attempts[i] = 0 THEN 0 ELSE attempts[i] - 1
              /\ Terminal(i) => r = retryCount[i]
              /\ r > 0 => IsNumber(max) /\ r <= max
              /\ IsNumber(base)
                 => /\ SumOf(waits[i]) = base * (2^r - 1)
                    /\ IsNumber(max) => SumOf(waits[i]) <= base * (2^max - 1)
                    /\ \A k \in 1..(r - 1) : waits[i][k + 1] = 2 * waits[i][k]

\* Two waits, then the success: nothing waited after it.
C20_Witness ==
    \E i \in Inv :
        /\ op[i] = "callApi"
        /\ pc[i] = "returned"
        /\ attempts[i] = 3
        /\ waits[i] = <<500, 1000>>

====
